---- MODULE Spec2Model ----
(***************************************************************************)
(* Model of the draw-io-mcp auto-layout core: gridLayout and               *)
(* flowchartLayout (utils/layout-algorithms), the autoLayout tool around   *)
(* them, the adjacency lists parseDiagram builds, the shape-kind           *)
(* classification of parseDiagram / listShapes against the style strings   *)
(* written by getShapeStyle, and the text-fit functions of                 *)
(* utils/text-sizing.                                                      *)
(*                                                                         *)
(* Coordinates of the computed position map are held in units of 1/K so    *)
(* that spacing * 1.3, spacing * 1.5 and the halving done by the           *)
(* centering step stay exact integers.                                     *)
(***************************************************************************)
EXTENDS Integers, Sequences, FiniteSets

\* ---------------------------------------------------------------- bounds
\* Shapes and connectors of the graphs handed to flowchartLayout.
MaxShapes == 3
MaxEdges == 3
\* Shapes of the graphs handed to gridLayout.
MaxGridShapes == 4
\* Shapes and connectors of the deeper graphs of SpecDeep.
DeepShapes == 4
DeepEdges == 4
\* Shape and connector records of the documents of SpecTool.
WideShapes == 4
WideEdges == 1
LiveShapes == 2
LiveEdges == 3
MaxCalls == 3
MaxRestarts == 1
DocShapes == 2
DocEdges == 2
\* Characters of a label handed to the text-fit functions.
MaxTextLen == 4
\* Tokens of a hand-edited style descriptor.
MaxStyleTokens == 2

\* ------------------------------------------------------ program constants
DefaultStartX == 50
DefaultStartY == 50
RowThreshold == 50
K == 20
LINE_HEIGHT == 24
HORIZONTAL_PADDING == 52
VERTICAL_PADDING == 28
MIN_WIDTH == 80
MIN_HEIGHT == 40
DefaultMaxWidth == 320

\* Spacing values handed to gridLayout and to flowchartLayout.
GridSpacings == {50, 80}
FlowSpacings == {50}

\* Geometry quadruples a parsed shape may carry into flowchartLayout.
FlowGeoms ==
  { [x |-> 40,  y |-> 40,  width |-> 100, height |-> 60],
    [x |-> 200, y |-> 120, width |-> 60,  height |-> 80] }

\* Geometry quadruples a parsed shape may carry into gridLayout.
GridGeoms ==
  { [x |-> 200, y |-> 40,  width |-> 100, height |-> 60],
    [x |-> 120, y |-> 70,  width |-> 60,  height |-> 80],
    [x |-> 40,  y |-> 100, width |-> 0,   height |-> 40] }

Layouts == {"grid", "flowchart-vertical", "flowchart-horizontal"}


\* ---------------------------------------------------------------- helpers
Max(S) == CHOOSE m \in S : \A e \in S : e <= m
Min(S) == CHOOSE m \in S : \A e \in S : m <= e

Range(s) == {s[i] : i \in DOMAIN s}

\* Math.ceil(Math.sqrt(n)) for n >= 0
CeilSqrt(n) == Min({c \in 0..n : c * c >= n})

\* Math.ceil(a / b) for a >= 0, b > 0
CeilDiv(a, b) == (a + b - 1) \div b

\* Array.prototype.sort with a consistent comparator (cmp[a, b] is what the
\* compare function returns): a stable sort, ties keep their order in s.
StableSort(s, cmp) ==
  LET n == Len(s)
      Before(i, j) == \/ cmp[s[i], s[j]] < 0
                      \/ (cmp[s[i], s[j]] = 0 /\ i < j)
      Rank(i) == Cardinality({j \in 1..n : j # i /\ Before(j, i)}) + 1
  IN  [k \in 1..n |-> s[CHOOSE i \in 1..n : Rank(i) = k]]

\* Does cmp order s without a cycle (so that the stable sort is defined)?
Sortable(s, cmp) ==
  LET n == Len(s)
      Before(i, j) == \/ cmp[s[i], s[j]] < 0
                      \/ (cmp[s[i], s[j]] = 0 /\ i < j)
      Rank(i) == Cardinality({j \in 1..n : j # i /\ Before(j, i)}) + 1
  IN  \A k \in 1..n : \E i \in 1..n : Rank(i) = k

\* Map.set(k, v) on a Map held as a function over its key set.
MapSet(m, k, v) == [i \in DOMAIN m \cup {k} |-> IF i = k THEN v ELSE m[i]]

\* Sum of f[e] over e in S.
RECURSIVE SumOf(_, _)
SumOf(f, S) ==
  IF S = {} THEN 0 ELSE LET e == CHOOSE e \in S : TRUE IN f[e] + SumOf(f, S \ {e})

Perms(S) ==
  {p \in [1..Cardinality(S) -> S] : \A i, j \in DOMAIN p : i # j => p[i] # p[j]}

\* Strictly increasing sequences over lo..hi of length at most k: the
\* connector records of a document, in document order.
RECURSIVE IncSeqs(_, _, _)
IncSeqs(lo, hi, k) ==
  IF k = 0 \/ lo > hi THEN {<<>>}
  ELSE {<<>>} \cup
       UNION { { <<p>> \o t : t \in IncSeqs(p + 1, hi, k - 1) } : p \in lo..hi }

\* ------------------------------------------- shape styles and shape kinds
\* Strings are sequences of one-character strings, so that String.includes
\* is a real substring search.
Txt_ellipse == <<"e", "l", "l", "i", "p", "s", "e">>
Txt_rhombus == <<"r", "h", "o", "m", "b", "u", "s">>
Txt_cylinder == <<"c", "y", "l", "i", "n", "d", "e", "r">>
Txt_hexagon == <<"h", "e", "x", "a", "g", "o", "n">>
Txt_cloud == <<"c", "l", "o", "u", "d">>
Txt_parallelogram == <<"p", "a", "r", "a", "l", "l", "e", "l", "o", "g", "r", "a", "m">>
Txt_trapezoid == <<"t", "r", "a", "p", "e", "z", "o", "i", "d">>
Txt_triangle == <<"t", "r", "i", "a", "n", "g", "l", "e">>
Txt_shapeCloud == <<"s", "h", "a", "p", "e", "=", "c", "l", "o", "u", "d">>

ShapeTypes ==
  {"rectangle", "ellipse", "rhombus", "cylinder", "hexagon", "cloud", "step",
   "parallelogram", "trapezoid", "triangle"}

\* baseStyles of getShapeStyle
BaseStyles ==
  [ rectangle |-> <<"r", "o", "u", "n", "d", "e", "d", "=", "0">>,
    ellipse |-> <<"e", "l", "l", "i", "p", "s", "e">>,
    rhombus |-> <<"r", "h", "o", "m", "b", "u", "s">>,
    cylinder |-> <<"s", "h", "a", "p", "e", "=", "c", "y", "l", "i", "n", "d", "e", "r", "3">>,
    hexagon |-> <<"s", "h", "a", "p", "e", "=", "h", "e", "x", "a", "g", "o", "n">>,
    cloud |-> <<"e", "l", "l", "i", "p", "s", "e", ";", "s", "h", "a", "p", "e", "=", "c", "l", "o", "u", "d">>,
    step |-> <<"s", "h", "a", "p", "e", "=", "s", "t", "e", "p">>,
    parallelogram |-> <<"s", "h", "a", "p", "e", "=", "p", "a", "r", "a", "l", "l", "e", "l", "o", "g", "r", "a", "m">>,
    trapezoid |-> <<"s", "h", "a", "p", "e", "=", "t", "r", "a", "p", "e", "z", "o", "i", "d">>,
    triangle |-> <<"t", "r", "i", "a", "n", "g", "l", "e">> ]

\* What getShapeStyle appends to the base style (default colours).
StyleTail ==
  <<";", "w", "h", "i", "t", "e", "S", "p", "a", "c", "e", "=", "w", "r",
    "a", "p", ";", "h", "t", "m", "l", "=", "1", ";", "f", "i", "l", "l",
    "C", "o", "l", "o", "r", "=", "#", "d", "a", "e", "8", "f", "c", ";",
    "s", "t", "r", "o", "k", "e", "C", "o", "l", "o", "r", "=", "#", "6",
    "c", "8", "e", "b", "f", ";", "f", "o", "n", "t", "S", "i", "z", "e",
    "=", "1", "2", ";", "a", "l", "i", "g", "n", "=", "l", "e", "f", "t",
    ";", "v", "e", "r", "t", "i", "c", "a", "l", "A", "l", "i", "g", "n",
    "=", "t", "o", "p", ";", "s", "p", "a", "c", "i", "n", "g", "L", "e",
    "f", "t", "=", "8", ";", "s", "p", "a", "c", "i", "n", "g", "R", "i",
    "g", "h", "t", "=", "8", ";", "s", "p", "a", "c", "i", "n", "g", "T",
    "o", "p", "=", "6", ";", "s", "p", "a", "c", "i", "n", "g", "B", "o",
    "t", "t", "o", "m", "=", "6", ";">>

GetShapeStyle(shapeType) == BaseStyles[shapeType] \o StyleTail

\* String.prototype.includes
Includes(str, sub) ==
  \E i \in 1..(Len(str) - Len(sub) + 1) : SubSeq(str, i, i + Len(sub) - 1) = sub

\* The discriminator chain of parseDiagram.
ParseShapeType(st) ==
  IF Includes(st, Txt_ellipse) THEN "ellipse"
  ELSE IF Includes(st, Txt_rhombus) THEN "rhombus"
  ELSE IF Includes(st, Txt_cylinder) THEN "cylinder"
  ELSE IF Includes(st, Txt_hexagon) THEN "hexagon"
  ELSE IF Includes(st, Txt_cloud) THEN "cloud"
  ELSE IF Includes(st, Txt_parallelogram) THEN "parallelogram"
  ELSE IF Includes(st, Txt_trapezoid) THEN "trapezoid"
  ELSE IF Includes(st, Txt_triangle) THEN "triangle"
  ELSE "rectangle"

\* The discriminator chain of listShapes.
ListShapeType(st) ==
  IF Includes(st, Txt_ellipse) THEN "ellipse"
  ELSE IF Includes(st, Txt_rhombus) THEN "rhombus"
  ELSE IF Includes(st, Txt_cylinder) THEN "cylinder"
  ELSE IF Includes(st, Txt_hexagon) THEN "hexagon"
  ELSE IF Includes(st, Txt_cloud) THEN "cloud"
  ELSE IF Includes(st, Txt_parallelogram) THEN "parallelogram"
  ELSE IF Includes(st, Txt_trapezoid) THEN "trapezoid"
  ELSE IF Includes(st, Txt_triangle) THEN "triangle"
  ELSE "rectangle"

\* The style tokens a hand-edited shape record may combine.
StyleTokens ==
  {BaseStyles[t] : t \in ShapeTypes \ {"cloud"}} \cup {Txt_shapeCloud}

\* Styles of at most k tokens, each token closed by ";".
RECURSIVE TokenStyles(_)
TokenStyles(k) ==
  IF k = 0 THEN {<<>>}
  ELSE {<<>>} \cup {t \o <<";">> \o rest : t \in StyleTokens, rest \in TokenStyles(k - 1)}

\* ------------------------------------------------------------------ state
VARIABLES
  shapes,      \* graph.shapes: id -> [x, y, width, height], ids 1..n in Map order
  edges,       \* graph.edges: sequence of [source, target]
  outgoing,    \* graph.outgoing: id -> sequence of target ids
  incoming,    \* graph.incoming: id -> sequence of source ids
  layout,      \* which layout function runs and along which axis
  options,     \* LayoutOptions
  pc,          \* "start", "bfs", "done"
  queue,       \* BFS queue of [id, level, lane]
  queueFrom,   \* history: per queue item, {shape whose expansion enqueued it}, {} for a seed
  visited,     \* BFS visited set
  levels,      \* Map id -> level
  levelOrder,  \* insertion order of the keys of levels
  swimLanes,   \* Map id -> lane
  reachedVia,  \* history: id -> queueFrom of the queue item that first visited it
  raisedAfter, \* history: shapes whose level a re-visit raised
  dequeues,    \* history: number of queue.shift() calls so far
  levelGroups, \* Map level -> shapes of the level, sorted (steps 3 and 4)
  levelMainSize,  \* Map level -> main-axis size
  levelCrossSize, \* Map level -> cross-axis size
  sortedShapes,\* gridLayout's local array of shape ids after shapes.sort
  positions,   \* the returned LayoutResult
  style,       \* style descriptor of a shape record of the document
  authoredAs,  \* history: the kind add_shape wrote the record for ("" if hand-edited)
  parsedType,  \* type parseDiagram gives the record ("" before it ran)
  listedType,  \* type listShapes reports for the record ("" before it ran)
  caller,      \* who runs the layout function: "autoLayout" or "direct"
  response,    \* autoLayout's ToolResponse (NoResponse until it returns)
  written,     \* has autoLayout written the document back?
  sizing,      \* the arguments of a call of a text-fit function
  dimensions,  \* what the call returned ({} before it returns)
  file,        \* the diagram file: its cells in document order, and whether
               \* auto_layout has rewritten its positions
  shapeNextId, \* add-shape's module variable nextId
  connectorNextId, \* add-connector's module variable nextId
  calls,       \* the tool invocations in flight: tool, position, locals
  reported,    \* history: the cells a returned response reported as added
  overlapped,  \* history: a write happened between another call's read and write
  restarts     \* history: how often the server process was restarted

layoutVars == <<shapes, edges, outgoing, incoming, layout, options, queue,
                queueFrom, visited, levels, levelOrder, swimLanes, reachedVia,
                raisedAfter, dequeues, levelGroups, levelMainSize,
                levelCrossSize, sortedShapes, positions>>
classifyVars == <<style, authoredAs, parsedType, listedType>>
toolVars == <<caller, response, written>>
textVars == <<sizing, dimensions>>
docVars == <<file, shapeNextId, connectorNextId, calls, reported, overlapped,
             restarts>>
vars == <<pc, layoutVars, classifyVars, toolVars, textVars, docVars>>

Ids == DOMAIN shapes

direction == IF layout = "flowchart-horizontal" THEN "horizontal" ELSE "vertical"

\* ------------------------------------------------------------ parseDiagram
\* Adjacency lists as parseDiagram builds them from the edge list.
RECURSIVE Adjacency(_, _, _)
Adjacency(es, ids, out) ==
  IF es = <<>> THEN [i \in ids |-> <<>>]
  ELSE LET rest == Adjacency(SubSeq(es, 1, Len(es) - 1), ids, out)
           e == es[Len(es)]
           key == IF out THEN e.source ELSE e.target
           val == IF out THEN e.target ELSE e.source
       IN  IF key \in ids THEN [rest EXCEPT ![key] = Append(@, val)] ELSE rest

\* The non-decreasing sequences over lo..hi of length at most k: edge lists
\* that may hold the same edge more than once.
RECURSIVE NonDecSeqs(_, _, _)
NonDecSeqs(lo, hi, k) ==
  IF k = 0 \/ lo > hi THEN {<<>>}
  ELSE {<<>>} \cup
       UNION { { <<p>> \o t : t \in NonDecSeqs(p, hi, k - 1) } : p \in lo..hi }

PairOf(p, n) == [source |-> (p \div n) + 1, target |-> (p % n) + 1]

\* The layout function was called on the graph directly: no tool response is
\* being built and nothing is written.
NoResponse == [text |-> "", isError |-> FALSE]
\* The diagram file with no cell but the two root cells, and a tool
\* invocation that has not been made.
EmptyDocument == [cells |-> <<>>, arranged |-> FALSE]
NoCell == [prefix |-> "", n |-> 0]
NotCalled == [op |-> "", at |-> "idle", content |-> EmptyDocument, cell |-> NoCell]

\* No document tool is being served.
DocIdle ==
  /\ file = EmptyDocument
  /\ shapeNextId = 2
  /\ connectorNextId = 2
  /\ calls = <<>>
  /\ reported = {}
  /\ overlapped = FALSE
  /\ restarts = 0

ToolIdle ==
  /\ caller = "direct"
  /\ response = NoResponse
  /\ written = FALSE

\* No text-fit function is being called.
NoCall ==
  [fn |-> "", text |-> <<>>, maxWidth |-> {}, providedWidth |-> {},
   providedHeight |-> {}, shapeType |-> ""]
TextIdle ==
  /\ sizing = NoCall
  /\ dimensions = {}

\* No shape record is being classified.
ClassifyIdle ==
  /\ style = <<>>
  /\ authoredAs = ""
  /\ parsedType = ""
  /\ listedType = ""

\* The locals of the layout functions before they run.
NotStarted ==
  /\ queue = <<>>
  /\ queueFrom = <<>>
  /\ visited = {}
  /\ levels = <<>>
  /\ levelOrder = <<>>
  /\ swimLanes = <<>>
  /\ reachedVia = <<>>
  /\ raisedAfter = {}
  /\ dequeues = 0
  /\ levelGroups = <<>>
  /\ levelMainSize = <<>>
  /\ levelCrossSize = <<>>
  /\ sortedShapes = <<>>
  /\ positions = <<>>

\* A layout function is called on the graph parsed from a document: at most
\* maxShapes shapes (maxGrid for the grid layout) and, for the flowchart
\* layouts, at most maxEdges connectors between them.
InitOf(maxShapes, maxEdges, maxGrid) ==
  /\ ClassifyIdle
  /\ TextIdle
  /\ ToolIdle
  /\ DocIdle
  /\ layout \in Layouts
  /\ \E n \in 1..(IF layout = "grid" THEN maxGrid ELSE maxShapes) :
       /\ shapes \in [1..n -> IF layout = "grid" THEN GridGeoms ELSE FlowGeoms]
       /\ \E ps \in IncSeqs(0, n * n - 1, IF layout = "grid" THEN 0 ELSE maxEdges) :
            edges = [i \in 1..Len(ps) |-> PairOf(ps[i], n)]
       /\ outgoing = Adjacency(edges, 1..n, TRUE)
       /\ incoming = Adjacency(edges, 1..n, FALSE)
  /\ options \in [spacing : IF layout = "grid" THEN GridSpacings ELSE FlowSpacings,
                    startX : {DefaultStartX}, startY : {DefaultStartY}]
  /\ pc = "start"
  /\ NotStarted

Init == InitOf(MaxShapes, MaxEdges, MaxGridShapes)

\* The same, for graphs deep enough to re-converge below a re-visited shape.
InitDeep == InitOf(DeepShapes, DeepEdges, MaxGridShapes)

\* --------------------------------------------------------- flowchartLayout
\* Position hint along the cross axis (x for vertical, y for horizontal).
CrossHint(id) == IF direction = "vertical" THEN shapes[id].x ELSE shapes[id].y
\* Position hint along the main axis.
MainHint(id) == IF direction = "vertical" THEN shapes[id].y ELSE shapes[id].x

\* The compare functions of the sorts, over the ids that can reach them.
CmpCross ==
  [a \in Ids, b \in Ids |-> CrossHint(a) - CrossHint(b)]
CmpMain == [a \in Ids, b \in Ids |-> MainHint(a) - MainHint(b)]
\* Children that are no shape compare equal to everything.
CmpChildren ==
  LET named == Ids \cup UNION {Range(outgoing[i]) : i \in Ids}
  IN  [a \in named, b \in named |->
         IF a \notin Ids \/ b \notin Ids THEN 0 ELSE CrossHint(a) - CrossHint(b)]

IdSeq == [i \in 1..Cardinality(Ids) |-> i]

\* Step 1: the shapes with no incoming edge, else the topmost/leftmost one;
\* then sorted by the cross-axis hint.
HasNoIncoming(id) == incoming[id] = <<>>
RootsInMapOrder ==
  LET noIncoming == SelectSeq(IdSeq, HasNoIncoming)
      fallback == <<StableSort(IdSeq, CmpMain)[1]>>
  IN  IF noIncoming = <<>> THEN fallback ELSE noIncoming
Roots ==
  LET noIncoming == SelectSeq(IdSeq, HasNoIncoming)
      fallback == <<StableSort(IdSeq, CmpMain)[1]>>
  IN  StableSort(IF noIncoming = <<>> THEN fallback ELSE noIncoming, CmpCross)

\* shapes.size === 0 returns the empty map; else roots.forEach seeds the queue.
FlowStart ==
  /\ pc = "start"
  /\ layout \in {"flowchart-vertical", "flowchart-horizontal"}
  /\ IF Ids = {}
     THEN /\ pc' = "done"
          /\ UNCHANGED <<queue, queueFrom>>
     ELSE /\ queue' = [i \in 1..Len(Roots) |-> [id |-> Roots[i], level |-> 0, lane |-> i - 1]]
          /\ queueFrom' = [i \in 1..Len(Roots) |-> {}]
          /\ pc' = "bfs"
  /\ UNCHANGED <<shapes, edges, outgoing, incoming, layout, options, visited,
                 levels, levelOrder, swimLanes, reachedVia, raisedAfter, dequeues,
                 levelGroups,
                 levelMainSize, levelCrossSize, sortedShapes, positions,
                 classifyVars, toolVars, textVars, docVars>>

\* outgoing.get(id) || []
Children(id) == IF id \in DOMAIN outgoing THEN outgoing[id] ELSE <<>>

\* The queue items pushed for the children of a shape visited at (level, lane).
ChildItemsParentLane(id, level, lane) ==
  LET sortedChildren == StableSort(Children(id), CmpChildren)
  IN  [i \in 1..Len(sortedChildren) |->
         [id |-> sortedChildren[i], level |-> level + 1, lane |-> lane]]
ChildItems(id, level, lane) ==
  LET sortedChildren == StableSort(Children(id), CmpChildren)
  IN  [i \in 1..Len(sortedChildren) |->
         [id |-> sortedChildren[i],
          level |-> level + 1,
          lane |-> IF Len(sortedChildren) > 1 THEN lane + (i - 1) ELSE lane]]

\* One iteration of the while loop on an item whose shape is not yet visited.
BfsVisit ==
  /\ pc = "bfs"
  /\ queue # <<>>
  /\ LET item == Head(queue)
         kids == ChildItems(item.id, item.level, item.lane)
     IN  /\ item.id \notin visited
         /\ visited' = visited \cup {item.id}
         /\ levels' = MapSet(levels, item.id, item.level)
         /\ levelOrder' = Append(levelOrder, item.id)
         /\ swimLanes' = MapSet(swimLanes, item.id, item.lane)
         /\ reachedVia' = MapSet(reachedVia, item.id, Head(queueFrom))
         /\ queue' = Tail(queue) \o kids
         /\ queueFrom' = Tail(queueFrom) \o [i \in 1..Len(kids) |-> {item.id}]
  /\ dequeues' = dequeues + 1
  /\ UNCHANGED <<shapes, edges, outgoing, incoming, layout, options, pc,
                 raisedAfter, levelGroups,
                 levelMainSize, levelCrossSize, sortedShapes, positions,
                 classifyVars, toolVars, textVars, docVars>>

\* The level a re-visit leaves recorded.
RevisitLevelKeep(existingLevel, level) == existingLevel
RevisitLevel(existingLevel, level) ==
  IF level > existingLevel THEN level ELSE existingLevel

\* One iteration of the while loop on an item whose shape was visited before.
BfsRevisitExpanding ==
  /\ pc = "bfs"
  /\ queue # <<>>
  /\ LET item == Head(queue)
         kids == ChildItems(item.id, item.level, item.lane)
     IN  /\ item.id \in visited
         /\ levels' = [levels EXCEPT ![item.id] = RevisitLevel(@, item.level)]
         /\ raisedAfter' = IF item.level > levels[item.id]
                           THEN raisedAfter \cup {item.id} ELSE raisedAfter
         /\ queue' = Tail(queue) \o kids
         /\ queueFrom' = Tail(queueFrom) \o [i \in 1..Len(kids) |-> {item.id}]
  /\ dequeues' = dequeues + 1
  /\ UNCHANGED <<shapes, edges, outgoing, incoming, layout, options, pc, visited,
                 levelOrder, swimLanes, reachedVia, levelGroups,
                 levelMainSize, levelCrossSize, sortedShapes, positions,
                 classifyVars, toolVars, textVars, docVars>>
BfsRevisit ==
  /\ pc = "bfs"
  /\ queue # <<>>
  /\ LET item == Head(queue)
     IN  /\ item.id \in visited
         /\ levels' = [levels EXCEPT ![item.id] = RevisitLevel(@, item.level)]
         /\ raisedAfter' = IF item.level > levels[item.id]
                           THEN raisedAfter \cup {item.id} ELSE raisedAfter
  /\ queue' = Tail(queue)
  /\ queueFrom' = Tail(queueFrom)
  /\ dequeues' = dequeues + 1
  /\ UNCHANGED <<shapes, edges, outgoing, incoming, layout, options, pc, visited,
                 levelOrder, swimLanes, reachedVia, levelGroups,
                 levelMainSize, levelCrossSize, sortedShapes, positions,
                 classifyVars, toolVars, textVars, docVars>>

\* The Maps levels / swimLanes (with the key order of levels) as one value.
BfsMaps == [levels |-> levels, order |-> levelOrder, lanes |-> swimLanes]

\* Handle disconnected shapes: every shape not visited, in Map order, goes
\* one level below the deepest level recorded so far, lane 0.
DisconnectedSkipped(i, st) == st
DisconnectedAtDeepest(i, st) ==
  LET Unvisited(id) == id \notin visited
      deepest == Max(Range(st.levels) \cup {0})
  IN  [levels |-> [id \in DOMAIN st.levels \cup (Ids \ visited) |->
                     IF id \in visited THEN st.levels[id] ELSE deepest],
       order  |-> st.order \o SelectSeq(IdSeq, Unvisited),
       lanes  |-> [id \in DOMAIN st.lanes \cup (Ids \ visited) |->
                     IF id \in visited THEN st.lanes[id] ELSE 0]]
RECURSIVE Disconnected(_, _)
Disconnected(i, st) ==
  IF i > Cardinality(Ids) THEN st
  ELSE IF i \in visited THEN Disconnected(i + 1, st)
  ELSE Disconnected(i + 1,
         [levels |-> MapSet(st.levels, i, Max(Range(st.levels) \cup {0}) + 1),
          order  |-> Append(st.order, i),
          lanes  |-> MapSet(st.lanes, i, 0)])

\* Steps 3 and 4: the shapes of one level, in key order of levels, sorted by
\* swim lane and then by the cross-axis hint.
LevelGroup(st, L) ==
  LET InLevel(id) == st.levels[id] = L
      CmpLane == [a \in Ids, b \in Ids |->
                    IF st.lanes[a] # st.lanes[b]
                    THEN st.lanes[a] - st.lanes[b]
                    ELSE CrossHint(a) - CrossHint(b)]
  IN  StableSort(SelectSeq(st.order, InLevel), CmpLane)

\* levelGroups after step 4; its key set is what sortedLevels enumerates.
LevelGroups(st) == [L \in Range(st.levels) |-> LevelGroup(st, L)]

MainDim(id) == IF direction = "vertical" THEN shapes[id].height ELSE shapes[id].width
CrossDim(id) == IF direction = "vertical" THEN shapes[id].width ELSE shapes[id].height

MaxShapesAtLevel(groups) ==
  Max({1} \cup {Len(groups[L]) : L \in DOMAIN groups})

\* spacing * parallelSpacingMultiplier, in units of 1/K
EffectiveSpacing(groups) ==
  IF MaxShapesAtLevel(groups) > 2 THEN (options.spacing * K * 15) \div 10
  ELSE options.spacing * K

\* spacing * verticalSpacingMultiplier, in units of 1/K
EffectiveVerticalSpacingPlain(groups) == options.spacing * K
EffectiveVerticalSpacing(groups) ==
  IF MaxShapesAtLevel(groups) > 2 THEN (options.spacing * K * 13) \div 10
  ELSE options.spacing * K

\* levelMainSize / levelCrossSize, in units of 1/K
LevelMainSizes(groups) ==
  [L \in DOMAIN groups |-> K * Max({0} \cup {MainDim(id) : id \in Range(groups[L])})]
LevelCrossSizes(groups) ==
  [L \in DOMAIN groups |-> K * Max({0} \cup {CrossDim(id) : id \in Range(groups[L])})]

LevelMainOffsetBySpacing(mainSizes, effV, L) ==
  Cardinality({l \in DOMAIN mainSizes : l < L}) * effV
\* levelMainOffset: what the levels before L add up to
LevelMainOffset(mainSizes, effV, L) ==
  SumOf([l \in DOMAIN mainSizes |-> mainSizes[l] + effV],
        {l \in DOMAIN mainSizes : l < L})

\* Offset of a level's first shape from the start coordinate (centering).
GroupStartLeft(crossSize, groupCrossExtent) == 0
GroupStart(crossSize, groupCrossExtent) ==
  IF groupCrossExtent > 0 THEN (crossSize - groupCrossExtent) \div 2 ELSE 0

\* The entry positions.set writes in step 5 for the shape at index (0-based)
\* of a level's group of count shapes.
Placed(count, index, crossSize, mainSize, mainOffset, effS) ==
  LET groupCrossExtent == count * (crossSize + effS) - effS
      cross == GroupStart(crossSize, groupCrossExtent) + index * (crossSize + effS)
  IN  IF direction = "vertical"
      THEN [x |-> options.startX * K + cross, y |-> options.startY * K + mainOffset,
            width |-> crossSize, height |-> mainSize]
      ELSE [x |-> options.startX * K + mainOffset, y |-> options.startY * K + cross,
            width |-> mainSize, height |-> crossSize]

\* positions after step 5
PlacedAll(groups, mainSizes, crossSizes) ==
  LET effS == EffectiveSpacing(groups)
      effV == EffectiveVerticalSpacing(groups)
      offsets == [L \in DOMAIN groups |-> LevelMainOffset(mainSizes, effV, L)]
      levelOf == [id \in UNION {Range(groups[L]) : L \in DOMAIN groups} |->
                    CHOOSE L \in DOMAIN groups : id \in Range(groups[L])]
  IN  [id \in DOMAIN levelOf |->
         LET L == levelOf[id]
             index == (CHOOSE i \in 1..Len(groups[L]) : groups[L][i] = id) - 1
         IN  Placed(Len(groups[L]), index, crossSizes[L], mainSizes[L], offsets[L], effS)]

\* The entry the normalisation loop writes back for pos.
Shifted(pos, offsetX, offsetY) == [x |-> pos.x + offsetX, y |-> pos.y + offsetY]

NormalizeNever(pos) == pos
\* Step 6: shift everything when something lies before the start.
Normalize(pos) ==
  LET minX == Min({pos[id].x : id \in DOMAIN pos})
      minY == Min({pos[id].y : id \in DOMAIN pos})
      sx == options.startX * K
      sy == options.startY * K
      offsetX == IF minX < sx THEN sx - minX ELSE 0
      offsetY == IF minY < sy THEN sy - minY ELSE 0
  IN  IF minX < sx \/ minY < sy
      THEN [id \in DOMAIN pos |-> Shifted(pos[id], offsetX, offsetY)]
      ELSE pos

\* A key of levels that is no shape: step 3 pushes shapes.get(id), undefined,
\* into its level's group, step 4's sort leaves undefined elements alone, and
\* the size loop of step 5 raises a TypeError reading shape.height / width.
GroupsHoldUndefined(st) == \E id \in DOMAIN st.levels : id \notin Ids

\* The queue is empty: disconnected shapes, grouping, placement, normalisation.
FlowFinish ==
  /\ pc = "bfs"
  /\ queue = <<>>
  /\ LET st == Disconnected(1, BfsMaps)
     IN  /\ levels' = st.levels
         /\ levelOrder' = st.order
         /\ swimLanes' = st.lanes
         /\ IF GroupsHoldUndefined(st)
            THEN /\ pc' = "threw"
                 /\ UNCHANGED <<levelGroups, levelMainSize, levelCrossSize, positions>>
            ELSE LET groups == LevelGroups(st)
                     mainSizes == LevelMainSizes(groups)
                     crossSizes == LevelCrossSizes(groups)
                 IN  /\ levelGroups' = groups
                     /\ levelMainSize' = mainSizes
                     /\ levelCrossSize' = crossSizes
                     /\ positions' = Normalize(PlacedAll(groups, mainSizes, crossSizes))
                     /\ pc' = "done"
  /\ UNCHANGED <<shapes, edges, outgoing, incoming, layout, options, queue,
                 queueFrom, visited, reachedVia, raisedAfter, dequeues, sortedShapes,
                 classifyVars, toolVars, textVars, docVars>>

\* -------------------------------------------------------------- gridLayout
Abs(v) == IF v < 0 THEN -v ELSE v

\* The row-clustering comparator.
GridCmp ==
  [a \in Ids, b \in Ids |->
     LET yDiff == shapes[a].y - shapes[b].y
     IN  IF Abs(yDiff) > RowThreshold THEN yDiff ELSE shapes[a].x - shapes[b].x]

\* What shapes.sort may leave: the stable order when the comparator orders
\* the shapes consistently, an implementation-defined permutation otherwise.
GridOrders ==
  IF Sortable(IdSeq, GridCmp) THEN {StableSort(IdSeq, GridCmp)} ELSE Perms(Ids)

ColumnsFloor(n) == Max({c \in 0..n : c * c <= n})
Columns(n) == CeilSqrt(n)
Rows(n) == CeilDiv(n, Columns(n))
ColOf(index, n) == index % Columns(n)
RowOf(index, n) == index \div Columns(n)

\* colWidths[c] / rowHeights[r] for the sorted array order (indices 0-based)
ColWidth(order, c) ==
  Max({0} \cup {shapes[order[i]].width :
                  i \in {j \in 1..Len(order) : ColOf(j - 1, Len(order)) = c}})
RowHeight(order, r) ==
  Max({0} \cup {shapes[order[i]].height :
                  i \in {j \in 1..Len(order) : RowOf(j - 1, Len(order)) = r}})

ColOffsetBySpacing(order, c) == c * options.spacing
ColOffset(order, c) ==
  SumOf([d \in 0..(c - 1) |-> ColWidth(order, d) + options.spacing], 0..(c - 1))
RowOffset(order, r) ==
  SumOf([d \in 0..(r - 1) |-> RowHeight(order, d) + options.spacing], 0..(r - 1))

\* The entry positions.set writes for the shape at index (0-based) of order.
GridCell(order, index) ==
  LET col == ColOf(index, Len(order))
      row == RowOf(index, Len(order))
  IN  [x |-> K * (options.startX + ColOffset(order, col)),
       y |-> K * (options.startY + RowOffset(order, row)),
       width |-> K * ColWidth(order, col),
       height |-> K * RowHeight(order, row)]

\* shapes.length / columns is 0 / 0, NaN, for no shapes: new Array(rows) then
\* raises a RangeError.
RowsIsNaN(n) == Columns(n) = 0

GridLayout ==
  /\ pc = "start"
  /\ layout = "grid"
  /\ \E order \in GridOrders :
       /\ sortedShapes' = order
       /\ IF RowsIsNaN(Len(order))
          THEN /\ pc' = "threw"
               /\ UNCHANGED positions
          ELSE /\ positions' = [id \in Range(order) |->
                    GridCell(order, (CHOOSE i \in 1..Len(order) : order[i] = id) - 1)]
               /\ pc' = "done"
  /\ UNCHANGED <<shapes, edges, outgoing, incoming, layout, options, queue,
                 queueFrom, visited, levels, levelOrder, swimLanes, reachedVia,
                 raisedAfter, dequeues, levelGroups, levelMainSize, levelCrossSize,
                 classifyVars, toolVars, textVars, docVars>>

Next == FlowStart \/ BfsVisit \/ BfsRevisit \/ FlowFinish \/ GridLayout

Spec == Init /\ [][Next]_vars

SpecDeep == InitDeep /\ [][Next]_vars

\* flowchartLayout alone, on graphs whose edge list may repeat an edge. The
\* function is one synchronous call: its loop always takes its next step.
InitLive ==
  /\ ClassifyIdle
  /\ TextIdle
  /\ ToolIdle
  /\ DocIdle
  /\ layout \in {"flowchart-vertical", "flowchart-horizontal"}
  /\ \E n \in 1..LiveShapes :
       /\ shapes \in [1..n -> FlowGeoms]
       /\ \E ps \in NonDecSeqs(0, n * n - 1, LiveEdges) :
            edges = [i \in 1..Len(ps) |-> PairOf(ps[i], n)]
       /\ outgoing = Adjacency(edges, 1..n, TRUE)
       /\ incoming = Adjacency(edges, 1..n, FALSE)
  /\ options \in [spacing : FlowSpacings,
                    startX : {DefaultStartX}, startY : {DefaultStartY}]
  /\ pc = "start"
  /\ NotStarted

\* flowchartLayout on graphs wide enough for a level of more than two shapes
\* next to another level.
InitWide == InitOf(WideShapes, WideEdges, 0) /\ layout # "grid"

NextFlow == FlowStart \/ BfsVisit \/ BfsRevisit \/ FlowFinish

SpecWide == InitWide /\ [][NextFlow]_vars

SpecLive ==
  /\ InitLive /\ [][NextFlow]_vars
  /\ WF_vars(FlowStart) /\ WF_vars(BfsVisit \/ BfsRevisit)

\* -------------------------------------------------------------- autoLayout
\* The layout argument: the three kinds of LayoutType, and a string that is
\* none of them.
LayoutKinds == Layouts \cup {"circular"}

\* A document of at most DocShapes shape records and at most DocEdges
\* connector records whose endpoints are shapes or one id no shape carries,
\* handed to autoLayout or, parsed, to a layout function.
InitTool ==
  /\ ClassifyIdle
  /\ TextIdle
  /\ \/ caller = "autoLayout" /\ pc = "call" /\ layout \in LayoutKinds
     \/ caller = "direct" /\ pc = "start" /\ layout \in Layouts
  /\ response = NoResponse
  /\ written = FALSE
  /\ DocIdle
  /\ \E n \in 0..DocShapes :
       /\ shapes \in [1..n -> FlowGeoms]
       /\ \E ps \in IncSeqs(0, (n + 1) * (n + 1) - 1, DocEdges) :
            edges = [i \in 1..Len(ps) |-> PairOf(ps[i], n + 1)]
       /\ outgoing = Adjacency(edges, 1..n, TRUE)
       /\ incoming = Adjacency(edges, 1..n, FALSE)
  /\ options \in [spacing : FlowSpacings, startX : {DefaultStartX}, startY : {DefaultStartY}]
  /\ NotStarted

AutoLayoutCallUnflagged ==
  /\ pc = "call"
  /\ IF Ids = {}
     THEN /\ response' = [text |-> "No shapes found in the diagram to layout.",
                          isError |-> FALSE]
          /\ pc' = "returned"
     ELSE IF layout \in Layouts
     THEN /\ pc' = "start"
          /\ UNCHANGED response
     ELSE /\ response' = [text |-> "Unknown layout type", isError |-> FALSE]
          /\ pc' = "returned"
  /\ UNCHANGED <<layoutVars, classifyVars, textVars, docVars, caller, written>>
\* autoLayout up to the switch: the empty-graph return, the dispatch to a
\* layout function, or the default branch.
AutoLayoutCall ==
  /\ pc = "call"
  /\ IF Ids = {}
     THEN /\ response' = [text |-> "No shapes found in the diagram to layout.",
                          isError |-> FALSE]
          /\ pc' = "returned"
     ELSE IF layout \in Layouts
     THEN /\ pc' = "start"
          /\ UNCHANGED response
     ELSE /\ response' = [text |-> "Unknown layout type", isError |-> TRUE]
          /\ pc' = "returned"
  /\ UNCHANGED <<layoutVars, classifyVars, textVars, docVars, caller, written>>

\* autoLayout after the layout function returned: updateShapePositions,
\* writeFile and the summary.
AutoLayoutWrite ==
  /\ pc = "done"
  /\ caller = "autoLayout"
  /\ written' = TRUE
  /\ response' = [text |-> "Applied layout", isError |-> FALSE]
  /\ pc' = "returned"
  /\ UNCHANGED <<layoutVars, classifyVars, textVars, docVars, caller>>

NextTool ==
  \/ AutoLayoutCall
  \/ FlowStart \/ BfsVisit \/ BfsRevisit \/ FlowFinish \/ GridLayout
  \/ AutoLayoutWrite

SpecTool == InitTool /\ [][NextTool]_vars

\* ------------------------------------------------ classifying shape records
\* No layout is running.
LayoutIdle ==
  /\ ToolIdle
  /\ shapes = <<>> /\ edges = <<>> /\ outgoing = <<>> /\ incoming = <<>>
  /\ layout = "grid"
  /\ options = [spacing |-> 50, startX |-> DefaultStartX, startY |-> DefaultStartY]
  /\ queue = <<>> /\ queueFrom = <<>> /\ visited = {}
  /\ levels = <<>> /\ levelOrder = <<>> /\ swimLanes = <<>>
  /\ reachedVia = <<>> /\ raisedAfter = {} /\ dequeues = 0
  /\ levelGroups = <<>> /\ levelMainSize = <<>> /\ levelCrossSize = <<>>
  /\ sortedShapes = <<>> /\ positions = <<>>

\* A document holding one shape record: written by add_shape for some kind,
\* or hand-edited from up to MaxStyleTokens style tokens.
InitClassify ==
  /\ LayoutIdle
  /\ DocIdle
  /\ TextIdle
  /\ pc = "classify"
  /\ \/ \E t \in ShapeTypes : authoredAs = t /\ style = GetShapeStyle(t)
     \/ authoredAs = "" /\ style \in TokenStyles(MaxStyleTokens)
  /\ parsedType = ""
  /\ listedType = ""

\* parseDiagram reaches the record and classifies it.
ParseRecord ==
  /\ pc = "classify"
  /\ parsedType = ""
  /\ parsedType' = ParseShapeType(style)
  /\ UNCHANGED <<pc, layoutVars, toolVars, textVars, docVars, style, authoredAs, listedType>>

\* listShapes reaches the record and classifies it.
ListRecord ==
  /\ pc = "classify"
  /\ listedType = ""
  /\ listedType' = ListShapeType(style)
  /\ UNCHANGED <<pc, layoutVars, toolVars, textVars, docVars, style, authoredAs, parsedType>>

NextClassify == ParseRecord \/ ListRecord

SpecClassify == InitClassify /\ [][NextClassify]_vars

\* ------------------------------------------------------------- text sizing
\* A label is a sequence of characters: "a" and "n" are letters, "bs" is the
\* backslash and "nl" the line-break character.
Chars == {"a", "n", "bs", "nl"}

RECURSIVE TextsUpTo(_)
TextsUpTo(k) ==
  IF k = 0 THEN {<<>>}
  ELSE {<<>>} \cup {<<c>> \o t : c \in Chars, t \in TextsUpTo(k - 1)}

\* CHAR_WIDTH = 7.5, in units of 1/K
CHAR_WIDTH == (15 * K) \div 2

\* A number above every finite one: what a division of a positive number by
\* zero yields.
Infinity == 1000000000

\* SHAPE_PADDING_MULTIPLIER, in hundredths
SHAPE_PADDING_MULTIPLIER ==
  [ rectangle |-> 105, step |-> 110, parallelogram |-> 115, trapezoid |-> 115,
    cylinder |-> 130, hexagon |-> 130, triangle |-> 160, ellipse |-> 140,
    cloud |-> 150, rhombus |-> 180 ]

\* shapeType ? (SHAPE_PADDING_MULTIPLIER[shapeType] ?? 1.0) : 1.0, in
\* hundredths; "" stands for an omitted shapeType.
Multiplier(shapeType) ==
  IF shapeType \in DOMAIN SHAPE_PADDING_MULTIPLIER
  THEN SHAPE_PADDING_MULTIPLIER[shapeType] ELSE 100

\* text.replace(/\\n/g, "\n"): every backslash followed by n becomes a line break.
RECURSIVE NormalizedText(_)
NormalizedText(t) ==
  IF t = <<>> THEN <<>>
  ELSE IF Len(t) >= 2 /\ t[1] = "bs" /\ t[2] = "n"
  THEN <<"nl">> \o NormalizedText(SubSeq(t, 3, Len(t)))
  ELSE <<t[1]>> \o NormalizedText(Tail(t))

\* normalizedText.split("\n")
RECURSIVE SplitLines(_)
SplitLines(t) ==
  IF \A i \in DOMAIN t : t[i] # "nl" THEN <<t>>
  ELSE LET i == Min({j \in DOMAIN t : t[j] = "nl"})
       IN  <<SubSeq(t, 1, i - 1)>> \o SplitLines(SubSeq(t, i + 1, Len(t)))

\* Math.ceil(a / b) for b # 0 of either sign
CeilQuot(a, b) == IF b > 0 THEN -((-a) \div b) ELSE -(a \div (-b))

\* The products base * multiplier that are whole numbers but that the
\* double-precision multiplication rounds to just above the whole number
\* (100 * 1.1 is 110.00000000000001), for -20 to 20 lines.
InexactAbove ==
  {<<100, 110>>, <<220, 110>>, <<340, 110>>, <<460, 110>>, <<-380, 115>>}

\* Math.ceil(base * multiplier) as the double arithmetic computes it
CeilTimes(base, m) ==
  CeilQuot(base * m, 100) + (IF <<base, m>> \in InexactAbove THEN 1 ELSE 0)

\* The loop body for one line: does it wrap, how many lines it adds
\* (Infinity for a division by zero) and the width it asks for (units of 1/K).
LineFitUncapped(line, maxWidth) ==
  LET lineWidth == Len(line) * CHAR_WIDTH
      effectiveMaxWidth == (maxWidth - HORIZONTAL_PADDING) * K
  IN  IF lineWidth > effectiveMaxWidth
      THEN [lines |-> IF effectiveMaxWidth = 0 THEN Infinity
                      ELSE CeilQuot(lineWidth, effectiveMaxWidth),
            width |-> lineWidth]
      ELSE [lines |-> 1, width |-> lineWidth]
LineFit(line, maxWidth) ==
  LET lineWidth == Len(line) * CHAR_WIDTH
      effectiveMaxWidth == (maxWidth - HORIZONTAL_PADDING) * K
  IN  IF lineWidth > effectiveMaxWidth
      THEN [lines |-> IF effectiveMaxWidth = 0 THEN Infinity
                      ELSE CeilQuot(lineWidth, effectiveMaxWidth),
            width |-> effectiveMaxWidth]
      ELSE [lines |-> 1, width |-> lineWidth]

TextHeightNoPadding(totalLines, shapeType) ==
  Max({MIN_HEIGHT, CeilTimes(totalLines * LINE_HEIGHT, Multiplier(shapeType))})
\* Math.max(MIN_HEIGHT, Math.ceil((totalLines * LINE_HEIGHT + VERTICAL_PADDING) * multiplier))
TextHeight(totalLines, shapeType) ==
  Max({MIN_HEIGHT,
       CeilTimes(totalLines * LINE_HEIGHT + VERTICAL_PADDING, Multiplier(shapeType))})

\* calculateTextDimensions(text, maxWidth, shapeType); maxWidth is {} when
\* omitted. The result is in units of 1/K; a height of Infinity stays Infinity.
CalculateTextDimensions(text, maxWidth, shapeType) ==
  LET mw == IF maxWidth = {} THEN DefaultMaxWidth ELSE CHOOSE w \in maxWidth : TRUE
      lines == SplitLines(NormalizedText(text))
      fits == [i \in DOMAIN lines |-> LineFit(lines[i], mw)]
      infinite == \E i \in DOMAIN fits : fits[i].lines = Infinity
      totalLines == SumOf([i \in DOMAIN fits |-> fits[i].lines], DOMAIN fits)
      maxLineWidth == Max({0} \cup {fits[i].width : i \in DOMAIN fits})
  IN  [width |-> Max({MIN_WIDTH * K, maxLineWidth + HORIZONTAL_PADDING * K}),
       height |-> IF infinite THEN Infinity ELSE K * TextHeight(totalLines, shapeType)]

\* calculateShapeDimensions(text, providedWidth, providedHeight, shapeType);
\* a provided value is {} when omitted, and is given in pixels.
CalculateShapeDimensionsFitDefault(text, providedWidth, providedHeight, shapeType) ==
  IF providedWidth # {} /\ providedHeight # {}
  THEN [width |-> K * (CHOOSE w \in providedWidth : TRUE),
        height |-> K * (CHOOSE h \in providedHeight : TRUE)]
  ELSE IF providedWidth # {}
  THEN [width |-> K * (CHOOSE w \in providedWidth : TRUE),
        height |-> CalculateTextDimensions(text, {}, shapeType).height]
  ELSE IF providedHeight # {}
  THEN [width |-> CalculateTextDimensions(text, {}, shapeType).width,
        height |-> K * (CHOOSE h \in providedHeight : TRUE)]
  ELSE CalculateTextDimensions(text, {}, shapeType)
CalculateShapeDimensions(text, providedWidth, providedHeight, shapeType) ==
  IF providedWidth # {} /\ providedHeight # {}
  THEN [width |-> K * (CHOOSE w \in providedWidth : TRUE),
        height |-> K * (CHOOSE h \in providedHeight : TRUE)]
  ELSE IF providedWidth # {}
  THEN [width |-> K * (CHOOSE w \in providedWidth : TRUE),
        height |-> CalculateTextDimensions(text, providedWidth, shapeType).height]
  ELSE IF providedHeight # {}
  THEN [width |-> CalculateTextDimensions(text, {}, shapeType).width,
        height |-> K * (CHOOSE h \in providedHeight : TRUE)]
  ELSE CalculateTextDimensions(text, {}, shapeType)

\* The widths and the height a caller passes.
TextWidths == {44, 52, 60, 81}
TextHeights == {70}
\* The shapeType argument: a kind, omitted (""), or a string that is no kind.
TextKinds == ShapeTypes \cup {"", "star"}
Optional(S) == {{}} \cup {{v} : v \in S}

\* A call of calculateTextDimensions or of calculateShapeDimensions on a label
\* of at most MaxTextLen characters.
InitText ==
  /\ LayoutIdle
  /\ DocIdle
  /\ ClassifyIdle
  /\ pc = "size"
  /\ \/ sizing \in [fn : {"calculateTextDimensions"}, text : TextsUpTo(MaxTextLen),
                      maxWidth : Optional(TextWidths), providedWidth : {{}},
                      providedHeight : {{}}, shapeType : TextKinds]
     \/ sizing \in [fn : {"calculateShapeDimensions"}, text : TextsUpTo(MaxTextLen),
                      maxWidth : {{}}, providedWidth : Optional(TextWidths),
                      providedHeight : Optional(TextHeights), shapeType : TextKinds]
  /\ dimensions = {}

TextDimensions ==
  /\ pc = "size"
  /\ sizing.fn = "calculateTextDimensions"
  /\ dimensions = {}
  /\ dimensions' = {CalculateTextDimensions(sizing.text, sizing.maxWidth, sizing.shapeType)}
  /\ UNCHANGED <<pc, layoutVars, classifyVars, toolVars, docVars, sizing>>

ShapeDimensions ==
  /\ pc = "size"
  /\ sizing.fn = "calculateShapeDimensions"
  /\ dimensions = {}
  /\ dimensions' = {CalculateShapeDimensions(sizing.text, sizing.providedWidth,
                                              sizing.providedHeight, sizing.shapeType)}
  /\ UNCHANGED <<pc, layoutVars, classifyVars, toolVars, docVars, sizing>>

NextText == TextDimensions \/ ShapeDimensions

SpecText == InitText /\ [][NextText]_vars

\* ---------------------------------------------------------------- document tools
\* add_shape, add_connector and auto_layout served by one process on one
\* file. A tool function runs without interruption up to its next await:
\* the file read with what follows it up to the write is one step, the write
\* with the response that follows it is another.

Calls == 1..MaxCalls
Ops == {"add_shape", "add_connector", "auto_layout"}

InitDoc ==
  /\ LayoutIdle
  /\ ClassifyIdle
  /\ TextIdle
  /\ pc = "serve"
  /\ file = EmptyDocument
  /\ shapeNextId = 2
  /\ connectorNextId = 2
  /\ calls = [c \in Calls |-> NotCalled]
  /\ reported = {}
  /\ overlapped = FALSE
  /\ restarts = 0

\* The request handler calls the tool function, which starts reading the file.
Invoke ==
  /\ pc = "serve"
  /\ \E c \in Calls, op \in Ops :
       /\ calls[c].at = "idle"
       /\ calls' = [calls EXCEPT ![c] = [NotCalled EXCEPT !.op = op, !.at = "reading"]]
  /\ UNCHANGED <<pc, layoutVars, classifyVars, toolVars, textVars, file,
                 shapeNextId, connectorNextId, reported, overlapped, restarts>>

\* content.replace("</root>", cellXml + "</root>"): the content with the new
\* cell after the cells it holds.
UpdatedContentOnlyNew(content, cell) == [content EXCEPT !.cells = <<cell>>]
UpdatedContent(content, cell) == [content EXCEPT !.cells = Append(@, cell)]

\* Is some other invocation between its read and its write?
OthersPending(c) == \E d \in Calls \ {c} : calls[d].at = "writing"

\* addShape: readFile resolves, then shape_${nextId++}.
AddShapeReadFile ==
  /\ pc = "serve"
  /\ \E c \in Calls :
       /\ calls[c].op = "add_shape" /\ calls[c].at = "reading"
       /\ calls' = [calls EXCEPT ![c].content = file,
                                 ![c].cell = [prefix |-> "shape", n |-> shapeNextId],
                                 ![c].at = "writing"]
  /\ shapeNextId' = shapeNextId + 1
  /\ UNCHANGED <<pc, layoutVars, classifyVars, toolVars, textVars, file,
                 connectorNextId, reported, overlapped, restarts>>

\* addShape: writeFile of the updated content, then the response.
AddShapeWriteFile ==
  /\ pc = "serve"
  /\ \E c \in Calls :
       /\ calls[c].op = "add_shape" /\ calls[c].at = "writing"
       /\ file' = UpdatedContent(calls[c].content, calls[c].cell)
       /\ reported' = reported \cup {calls[c].cell}
       /\ overlapped' = (overlapped \/ OthersPending(c))
       /\ calls' = [calls EXCEPT ![c].at = "done"]
  /\ UNCHANGED <<pc, layoutVars, classifyVars, toolVars, textVars,
                 shapeNextId, connectorNextId, restarts>>

\* addConnector: readFile resolves, then connector_${nextId++}.
AddConnectorReadFile ==
  /\ pc = "serve"
  /\ \E c \in Calls :
       /\ calls[c].op = "add_connector" /\ calls[c].at = "reading"
       /\ calls' = [calls EXCEPT ![c].content = file,
                                 ![c].cell = [prefix |-> "connector", n |-> connectorNextId],
                                 ![c].at = "writing"]
  /\ connectorNextId' = connectorNextId + 1
  /\ UNCHANGED <<pc, layoutVars, classifyVars, toolVars, textVars, file,
                 shapeNextId, reported, overlapped, restarts>>

\* addConnector: writeFile of the updated content, then the response.
AddConnectorWriteFile ==
  /\ pc = "serve"
  /\ \E c \in Calls :
       /\ calls[c].op = "add_connector" /\ calls[c].at = "writing"
       /\ file' = UpdatedContent(calls[c].content, calls[c].cell)
       /\ reported' = reported \cup {calls[c].cell}
       /\ overlapped' = (overlapped \/ OthersPending(c))
       /\ calls' = [calls EXCEPT ![c].at = "done"]
  /\ UNCHANGED <<pc, layoutVars, classifyVars, toolVars, textVars,
                 shapeNextId, connectorNextId, restarts>>

\* graph.shapes.size of the content read
HasShapes(content) ==
  \E i \in DOMAIN content.cells : content.cells[i].prefix = "shape"

\* autoLayout: readFile resolves, parseDiagram, then either the early return
\* for no shapes, or the layout function, which returns positions or throws.
AutoLayoutReadFile ==
  /\ pc = "serve"
  /\ \E c \in Calls :
       /\ calls[c].op = "auto_layout" /\ calls[c].at = "reading"
       /\ \E outcome \in {"positions", "threw"} :
            calls' = [calls EXCEPT ![c].content = file,
                                  ![c].at = IF HasShapes(file) /\ outcome = "positions"
                                            THEN "writing" ELSE "done"]
  /\ UNCHANGED <<pc, layoutVars, classifyVars, toolVars, textVars, file,
                 shapeNextId, connectorNextId, reported, overlapped, restarts>>

\* autoLayout: writeFile of updateShapePositions(content, newPositions).
AutoLayoutWriteFile ==
  /\ pc = "serve"
  /\ \E c \in Calls :
       /\ calls[c].op = "auto_layout" /\ calls[c].at = "writing"
       /\ file' = [calls[c].content EXCEPT !.arranged = TRUE]
       /\ overlapped' = (overlapped \/ OthersPending(c))
       /\ calls' = [calls EXCEPT ![c].at = "done"]
  /\ UNCHANGED <<pc, layoutVars, classifyVars, toolVars, textVars,
                 shapeNextId, connectorNextId, reported, restarts>>

\* The server process ends and a new one starts on the same file: both
\* modules initialise nextId to 2 again, and no invocation is in flight.
Restart ==
  /\ pc = "serve"
  /\ restarts < MaxRestarts
  /\ restarts' = restarts + 1
  /\ shapeNextId' = 2
  /\ connectorNextId' = 2
  /\ calls' = [c \in Calls |-> NotCalled]
  /\ UNCHANGED <<pc, layoutVars, classifyVars, toolVars, textVars, file,
                 reported, overlapped>>

NextCalls ==
  \/ Invoke
  \/ AddShapeReadFile \/ AddShapeWriteFile
  \/ AddConnectorReadFile \/ AddConnectorWriteFile
  \/ AutoLayoutReadFile \/ AutoLayoutWriteFile

\* Overlapping tool calls within one process lifetime.
SpecCalls == InitDoc /\ [][NextCalls]_vars

NextIds == NextCalls \/ Restart

\* Tool calls interleaved with restarts of the process.
SpecIds == InitDoc /\ [][NextIds]_vars


\* ================================================================= claims
Done == pc = "done"
BfsComplete == (pc = "bfs" /\ queue = <<>>) \/ (pc = "done" /\ layout # "grid")
FlowDone == pc = "done" /\ layout # "grid"
GridDone == pc = "done" /\ layout = "grid"

\* The Graph invariant: adjacency lists reference only shapes of the graph.
GraphInvariant ==
  \A id \in Ids : Range(outgoing[id]) \subseteq Ids /\ Range(incoming[id]) \subseteq Ids

\* Two boxes [x, y, width, height] share a point.
Intersect(p, q) ==
  /\ p.x <= q.x + q.width /\ q.x <= p.x + p.width
  /\ p.y <= q.y + q.height /\ q.y <= p.y + p.height

\* C1 Coverage: for a graph that satisfies the Graph invariant and has at
\* least one shape, the key set of the position map returned by gridLayout
\* and by flowchartLayout (either axis) is exactly the graph's shape-id set.
C1_Coverage == (Done /\ GraphInvariant) => DOMAIN positions = Ids

\* C1 witness: a flowchart run that had to place a shape the BFS never
\* reached, and returned a position for every shape.
C1_Witness ==
  /\ FlowDone /\ visited # Ids /\ Cardinality(Ids) >= 3 /\ DOMAIN positions = Ids

\* C2 Grid no-overlap: with non-negative sizes and spacing > 0, the boxes
\* (x, y, emitted width, emitted height) of two distinct shapes in
\* gridLayout's result never intersect.
C2_GridNoOverlap ==
  (GridDone /\ options.spacing > 0
     /\ \A id \in Ids : shapes[id].width >= 0 /\ shapes[id].height >= 0)
  => \A a, b \in DOMAIN positions :
       a # b => ~Intersect(positions[a], positions[b])

\* C2 witness: a grid of two rows and two columns holding shapes of different
\* widths and heights.
C2_Witness ==
  /\ GridDone /\ Cardinality(Ids) = 4
  /\ \E a, b \in Ids : shapes[a].width # shapes[b].width /\ shapes[a].height # shapes[b].height
  /\ \A a, b \in Ids : a # b => ~Intersect(positions[a], positions[b])

\* C3 Level monotonicity: when the BFS completes, every shape v first visited
\* from a queue item enqueued while expanding u has final level(v) >=
\* final level(u) + 1, also when a later re-visit of u raised level(u).
C3_LevelMonotonicity ==
  BfsComplete =>
    \A v \in visited :
      \A u \in reachedVia[v] : levels[v] >= levels[u] + 1

\* Shapes reachable from id along one or more outgoing entries.
RECURSIVE ReachFrom(_, _)
ReachFrom(frontier, seen) ==
  LET next == UNION {Range(outgoing[u]) : u \in frontier} \ seen
  IN  IF next = {} THEN seen ELSE ReachFrom(next, seen \cup next)
Descendants(id) == ReachFrom({id}, {})
Acyclic == \A id \in Ids : id \notin Descendants(id)

\* Length of the longest directed path from a root to id (acyclic graphs).
RECURSIVE LongestPath(_)
LongestPath(id) ==
  IF incoming[id] = <<>> THEN 0
  ELSE 1 + Max({LongestPath(u) : u \in Range(incoming[id])})

\* C4 Longest-path levels: in an acyclic graph with at least one root, the
\* final level of every shape reachable from a root is the length of the
\* longest directed path from a root to it.
C4_LongestPathLevels ==
  (BfsComplete /\ GraphInvariant /\ Acyclic)
  => \A v \in visited : levels[v] = LongestPath(v)

\* The box of a placed shape: its result (x, y) with its level's cross-axis
\* and main-axis size.
LevelBox(id) ==
  LET L == levels[id]
  IN  IF direction = "vertical"
      THEN [x |-> positions[id].x, y |-> positions[id].y,
            width |-> levelCrossSize[L], height |-> levelMainSize[L]]
      ELSE [x |-> positions[id].x, y |-> positions[id].y,
            width |-> levelMainSize[L], height |-> levelCrossSize[L]]

MainCoord(box) == IF direction = "vertical" THEN box.y ELSE box.x
MainExtent(box) == IF direction = "vertical" THEN box.height ELSE box.width

\* C5 Flowchart no-overlap: for a graph satisfying the Graph invariant and
\* spacing > 0, the level boxes of two distinct shapes of flowchartLayout's
\* result never intersect, and shapes of different levels are separated along
\* the main axis.
C5_FlowNoOverlap ==
  (FlowDone /\ GraphInvariant /\ options.spacing > 0)
  => \A a, b \in DOMAIN positions :
       a # b =>
         /\ ~Intersect(LevelBox(a), LevelBox(b))
         /\ levels[a] < levels[b] =>
              MainCoord(LevelBox(a)) + MainExtent(LevelBox(a)) < MainCoord(LevelBox(b))

\* C5 witness: a finished flowchart with two shapes in one level and a third
\* in another level, none of the boxes intersecting.
C5_Witness ==
  /\ FlowDone
  /\ \E a, b, c \in Ids :
       /\ a # b /\ levels[a] = levels[b] /\ levels[c] > levels[a]
       /\ shapes[a].width # shapes[b].width
       /\ ~Intersect(LevelBox(a), LevelBox(b))
       /\ ~Intersect(LevelBox(a), LevelBox(c))

\* C6 Normalization: in flowchartLayout's result every position has
\* x >= startX and y >= startY, and the minimum x equals startX and the
\* minimum y equals startY.
C6_Normalization ==
  FlowDone =>
    /\ \A id \in DOMAIN positions :
         positions[id].x >= options.startX * K /\ positions[id].y >= options.startY * K
    /\ \E id \in DOMAIN positions : positions[id].x = options.startX * K
    /\ \E id \in DOMAIN positions : positions[id].y = options.startY * K

\* C6 witness: a finished flowchart in which a level holds several shapes, so
\* the centering step put a shape before the start and the shift was applied.
C6_Witness ==
  /\ FlowDone
  /\ \E L \in DOMAIN levelGroups : Len(levelGroups[L]) >= 2
  /\ \A id \in DOMAIN positions :
       positions[id].x >= options.startX * K /\ positions[id].y >= options.startY * K

MainSizeOf(pos) == IF direction = "vertical" THEN pos.height ELSE pos.width

\* C7 Flowchart entries carry sizes: every entry of flowchartLayout's result
\* has width and height, and the main-axis size of each entry is the maximum
\* of its level's shapes, also when the normalization shift is applied.
C7_EntriesCarrySizes ==
  FlowDone =>
    \A id \in DOMAIN positions :
      /\ {"width", "height"} \subseteq DOMAIN positions[id]
      /\ MainSizeOf(positions[id]) = levelMainSize[levels[id]]

\* The A -> B, A -> C scenario: three shapes, B and C of width 100, spacing 50,
\* start (50, 50), vertical.
ForkScenario ==
  /\ layout = "flowchart-vertical"
  /\ Cardinality(Ids) = 3
  /\ edges = <<[source |-> 1, target |-> 2], [source |-> 1, target |-> 3]>>
  /\ shapes[2].width = 100 /\ shapes[3].width = 100
  /\ options = [spacing |-> 50, startX |-> 50, startY |-> 50]

\* Every level of the result is laid out symmetrically around x = centre.
LevelsSymmetricAround(centre) ==
  \A L \in DOMAIN levelGroups :
    LET g == levelGroups[L]
    IN  \A i \in 1..Len(g) :
          positions[g[i]].x + positions[g[Len(g) + 1 - i]].x = 2 * centre

\* C8 as stated: in the final result of a vertical flowchartLayout a level
\* with one shape is at x = startX and a level with several shapes is
\* symmetric around startX; in the fork scenario A ends at x = 50 and B, C
\* symmetric around x = 50.
C8_CenteredOnStart ==
  (FlowDone /\ layout = "flowchart-vertical")
  => /\ LevelsSymmetricAround(options.startX * K)
     /\ ForkScenario =>
          /\ positions[1].x = 50 * K
          /\ positions[2].x + positions[3].x = 2 * 50 * K

\* The shift the normalization applies along x in a vertical layout: half the
\* cross-axis span of the widest level.
CrossShift ==
  Max({((Len(levelGroups[L]) - 1)
          * (levelCrossSize[L] + EffectiveSpacing(levelGroups))) \div 2 :
         L \in DOMAIN levelGroups})

\* C8 amended: in the final result of a vertical flowchartLayout every level
\* is symmetric around the one axis x = startX + shift, where shift is half
\* the span of the widest level (0 only when every level holds one shape); a
\* single-shape level sits on that axis; in the fork scenario A ends at
\* x = 125 and B, C at x = 50 and x = 200.
C8_CenteredOnCommonAxis ==
  (FlowDone /\ layout = "flowchart-vertical")
  => /\ LevelsSymmetricAround(options.startX * K + CrossShift)
     /\ ForkScenario =>
          /\ positions[1].x = 125 * K
          /\ {positions[2].x, positions[3].x} = {50 * K, 200 * K}

\* C8 witness: the fork scenario, finished, with A moved off startX.
C8_Witness ==
  /\ FlowDone /\ ForkScenario
  /\ positions[1].x = 125 * K
  /\ positions[2].x + positions[3].x = 2 * positions[1].x

\* Column and row numbers as C9 states them.
C9Columns(n) == CHOOSE c \in 1..n : (c - 1) * (c - 1) < n /\ n <= c * c
C9Rows(n) == CHOOSE r \in 1..n : (r - 1) * C9Columns(n) < n /\ n <= r * C9Columns(n)
C9InCol(c) ==
  {sortedShapes[j + 1] : j \in {i \in 0..(Len(sortedShapes) - 1) :
                                  i % C9Columns(Len(sortedShapes)) = c}}
C9InRow(r) ==
  {sortedShapes[j + 1] : j \in {i \in 0..(Len(sortedShapes) - 1) :
                                  i \div C9Columns(Len(sortedShapes)) = r}}
C9ColMax(c) == Max({0} \cup {shapes[id].width : id \in C9InCol(c)})
C9RowMax(r) == Max({0} \cup {shapes[id].height : id \in C9InRow(r)})

\* C9 Grid placement: with the n shapes in sorted order, columns =
\* ceil(sqrt(n)), rows = ceil(n / columns); the shape at index i gets col =
\* i mod columns, row = floor(i / columns), x = startX + widths of the columns
\* before it + col * spacing, y likewise over rows, emitted width = its
\* column's maximum width and emitted height = its row's maximum height; four
\* 100x60 shapes, spacing 80, start (50, 50): index 2 lands at (50, 190).
C9_GridPlacement ==
  GridDone =>
    LET n == Len(sortedShapes)
        columns == C9Columns(n)
        rows == C9Rows(n)
    IN  /\ Range(sortedShapes) = Ids /\ n = Cardinality(Ids)
        /\ \A i \in 0..(n - 1) :
             LET col == i % columns
                 row == i \div columns
                 pos == positions[sortedShapes[i + 1]]
             IN  /\ row < rows
                 /\ pos.x = K * (options.startX
                                 + SumOf([d \in 0..(col - 1) |-> C9ColMax(d)], 0..(col - 1))
                                 + col * options.spacing)
                 /\ pos.y = K * (options.startY
                                 + SumOf([d \in 0..(row - 1) |-> C9RowMax(d)], 0..(row - 1))
                                 + row * options.spacing)
                 /\ pos.width = K * C9ColMax(col)
                 /\ pos.height = K * C9RowMax(row)
        /\ (/\ n = 4
            /\ \A id \in Ids : shapes[id].width = 100 /\ shapes[id].height = 60
            /\ options = [spacing |-> 80, startX |-> 50, startY |-> 50])
           => /\ positions[sortedShapes[3]].x = 50 * K
              /\ positions[sortedShapes[3]].y = 190 * K

\* C9 witness: the four 100x60 shapes at spacing 80, index 2 at (50, 190).
C9_Witness ==
  /\ GridDone /\ Len(sortedShapes) = 4 /\ options.spacing = 80
  /\ \A id \in Ids : shapes[id].width = 100 /\ shapes[id].height = 60
  /\ positions[sortedShapes[3]].x = 50 * K
  /\ positions[sortedShapes[3]].y = 190 * K

\* C10 Deterministic classification: a shape whose style descriptor contains
\* both the cloud marker shape=cloud and the substring ellipse (the style
\* add_shape writes for a cloud) is classified as cloud, not ellipse.
C10_CloudBeforeEllipse ==
  (Includes(style, Txt_shapeCloud) /\ Includes(style, Txt_ellipse))
  => /\ parsedType # "" => parsedType = "cloud"
     /\ listedType # "" => listedType = "cloud"

\* C11 Graph adjacency invariant: in the graph parseDiagram returns, every key
\* of outgoing and incoming is the id of a shape, and every id stored inside
\* an adjacency list is the id of a shape too, also for edges with exactly
\* one endpoint missing (the edge list holds every matched edge).
C11_AdjacencyInvariant ==
  /\ DOMAIN outgoing \subseteq Ids
  /\ DOMAIN incoming \subseteq Ids
  /\ \A id \in DOMAIN outgoing : Range(outgoing[id]) \subseteq Ids
  /\ \A id \in DOMAIN incoming : Range(incoming[id]) \subseteq Ids

\* An edge with exactly one endpoint that is a shape.
HasDanglingEdge ==
  \E i \in DOMAIN edges : (edges[i].source \in Ids) # (edges[i].target \in Ids)

\* C12 Dangling edges are tolerated by layout: on a graph holding an edge with
\* a present source and a missing target (or the reverse), flowchartLayout
\* (either axis) and gridLayout complete without raising an error and return
\* positions for exactly the present shapes.
C12_DanglingTolerated ==
  HasDanglingEdge =>
    /\ pc # "threw"
    /\ pc = "done" => DOMAIN positions = Ids

\* A call of calculateTextDimensions / calculateShapeDimensions has returned.
FitReturned == sizing.fn = "calculateTextDimensions" /\ dimensions # {}
ShapeFitReturned == sizing.fn = "calculateShapeDimensions" /\ dimensions # {}
\* The maxWidth a call of calculateTextDimensions runs with.
FitMaxWidth == IF sizing.maxWidth = {} THEN 320 ELSE CHOOSE w \in sizing.maxWidth : TRUE

C13HeightOneLine(kind) ==
  CASE kind = "rectangle" -> 55
    [] kind = "step" -> 58
    [] kind \in {"parallelogram", "trapezoid"} -> 60
    [] kind \in {"cylinder", "hexagon"} -> 68
    [] kind = "ellipse" -> 73
    [] kind = "cloud" -> 78
    [] kind = "triangle" -> 84
    [] kind = "rhombus" -> 94
    [] OTHER -> 52
C13HeightNoLine(kind) ==
  CASE kind = "cloud" -> 42
    [] kind = "triangle" -> 45
    [] kind = "rhombus" -> 51
    [] OTHER -> 40

C14_MultiplierTable ==
  pc = "size" =>
    /\ \A k \in {"rectangle", "step", "parallelogram", "trapezoid"} : Multiplier(k) = 100
    /\ \A k \in ShapeTypes \ {"rectangle", "step", "parallelogram", "trapezoid"} :
         Multiplier(k) > 100
    /\ Multiplier("cylinder") < Multiplier("hexagon")
    /\ Multiplier("hexagon") = Multiplier("triangle")
    /\ Multiplier("triangle") < Multiplier("ellipse")
    /\ Multiplier("ellipse") = Multiplier("cloud")
    /\ Multiplier("cloud") < Multiplier("rhombus")
    /\ Multiplier("") = 100
    /\ Multiplier("star") = 100

\* C15 Multiplier ordering: for every label text and every maxWidth, the
\* height the text-fit calculator computes for kind rhombus is strictly
\* greater than the height it computes for kind rectangle.
C15_RhombusTaller ==
  (FitReturned /\ sizing.shapeType = "rhombus")
  => \A d \in dimensions :
       d.height > CalculateTextDimensions(sizing.text, sizing.maxWidth, "rectangle").height

\* C16 calculateShapeDimensions respects provided values: both provided, the
\* result is exactly (providedWidth, providedHeight); only width, the result
\* width is providedWidth and the height is the fit height at maxWidth =
\* providedWidth; only height, the result height is providedHeight and the
\* width is the fit width at the default maxWidth; neither, the result is
\* fit(text, default, kind).
C16_RespectsProvided ==
  ShapeFitReturned =>
    \A d \in dimensions :
      LET pw == sizing.providedWidth
          ph == sizing.providedHeight
          fitAtWidth == CalculateTextDimensions(sizing.text, pw, sizing.shapeType)
          fitDefault == CalculateTextDimensions(sizing.text, {}, sizing.shapeType)
      IN  /\ (pw # {} /\ ph # {}) => ({d.width} = {K * w : w \in pw} /\ {d.height} = {K * h : h \in ph})
          /\ (pw # {} /\ ph = {}) => ({d.width} = {K * w : w \in pw} /\ d.height = fitAtWidth.height)
          /\ (pw = {} /\ ph # {}) => (d.width = fitDefault.width /\ {d.height} = {K * h : h \in ph})
          /\ (pw = {} /\ ph = {}) => d = fitDefault

\* C16 witness: "aa" in a rectangle with only width 60 provided wraps into two
\* lines: 60 wide and ceil((2 * 24 + 28) * 1.05) = 80 high, where the fit at
\* the default maxWidth is 55 high.
C16_Witness ==
  /\ ShapeFitReturned
  /\ sizing.text = <<"a", "a">> /\ sizing.shapeType = "rectangle"
  /\ sizing.providedWidth = {60} /\ sizing.providedHeight = {}
  /\ dimensions = {[width |-> 60 * K, height |-> 80 * K]}

\* autoLayout was called with a layout kind that is none of the three.
UnknownKindCalled == caller = "autoLayout" /\ layout \notin Layouts /\ pc # "call"

\* C17 as stated: for every document, also one with zero shapes, autoLayout
\* with an unknown layout kind returns a result with isError = true, without
\* throwing, and writes nothing.
C17_UnknownKindIsError ==
  UnknownKindCalled =>
    /\ pc = "returned"
    /\ response.isError
    /\ ~written

\* C17 amended: autoLayout with an unknown layout kind never throws and never
\* writes; for a document with at least one shape it returns a result with
\* isError = true, for a document with zero shapes the non-error "No shapes
\* found" result.
C17_UnknownKindOutcome ==
  UnknownKindCalled =>
    /\ pc = "returned"
    /\ ~written
    /\ response.isError <=> Ids # {}
    /\ Ids = {} => response.text = "No shapes found in the diagram to layout."

\* C17 witness: a document with shapes and connectors, an unknown kind, and
\* the error result returned with nothing written.
C17_Witness ==
  /\ UnknownKindCalled /\ pc = "returned"
  /\ Ids # {} /\ edges # <<>>
  /\ response.isError /\ ~written

\* C18 Empty graph is a no-op: for a graph with zero shapes, gridLayout and
\* flowchartLayout each return an empty position map without raising an
\* error, and autoLayout returns a non-error "nothing to do" result and does
\* not rewrite the document.
C18_EmptyGraphNoOp ==
  Ids = {} =>
    /\ pc # "threw"
    /\ pc = "done" => DOMAIN positions = {}
    /\ (caller = "autoLayout" /\ pc # "call")
       => (pc = "returned" /\ ~response.isError /\ ~written)

\* A single shape with an edge from itself to itself.
SelfLoopGraph ==
  Cardinality(Ids) = 1 /\ edges = <<[source |-> 1, target |-> 1]>>

\* C19 Self-loop: for a single shape with an edge from itself to itself,
\* flowchartLayout records the shape at level 0 when the BFS completes; the
\* re-visit caused by the self-referencing edge does not change its level.
C19_SelfLoopLevelZero ==
  (BfsComplete /\ SelfLoopGraph) => levels[1] = 0

\* C20 Disconnected shapes: every shape the BFS did not visit is assigned
\* lane 0 and a level one more than the maximum level assigned so far, so its
\* level is strictly greater than the level of every BFS-reached shape, and it
\* is placed after them on the main axis without overlapping any other shape.
C20_DisconnectedLast ==
  FlowDone =>
    \A d \in Ids \ visited :
      /\ swimLanes[d] = 0
      /\ levels[d] = Max({levels[v] : v \in visited} \cup {0})
                       + Cardinality({e \in Ids \ visited : e <= d})
      /\ \A v \in visited :
           /\ levels[d] > levels[v]
           /\ MainCoord(LevelBox(v)) + MainExtent(LevelBox(v)) < MainCoord(LevelBox(d))
      /\ \A o \in Ids \ {d} : ~Intersect(LevelBox(d), LevelBox(o))

\* C20 witness: a finished flowchart with a reached shape and two shapes the
\* BFS never visited, put on two successive levels after it.
C20_Witness ==
  /\ FlowDone
  /\ \E v \in visited : \E d, e \in Ids \ visited :
       /\ levels[d] = levels[v] + 1 /\ levels[e] = levels[v] + 2
       /\ swimLanes[d] = 0 /\ swimLanes[e] = 0
       /\ MainCoord(LevelBox(v)) < MainCoord(LevelBox(d))
       /\ MainCoord(LevelBox(d)) < MainCoord(LevelBox(e))

\* C21 BFS re-visit rule: at every step of the BFS, the recorded level of a
\* visited shape never decreases (a re-visit sets it to the maximum of the
\* existing and the incoming level), its lane never changes, and a re-visit
\* enqueues nothing.
C21_RevisitRule ==
  [][ pc = "bfs" =>
        /\ \A id \in visited :
             /\ levels'[id] >= levels[id]
             /\ swimLanes'[id] = swimLanes[id]
        /\ (queue # <<>> /\ Head(queue).id \in visited) =>
             /\ levels'[Head(queue).id] =
                  Max({levels[Head(queue).id], Head(queue).level})
             /\ queue' = Tail(queue)
             /\ visited' = visited ]_vars

\* C21 witness: a re-visit has raised the level of a shape above the level
\* it was first visited at, and the BFS goes on.
C21_Witness ==
  /\ pc = "bfs"
  /\ \E id \in raisedAfter : levels[id] >= 2

\* The number of adjacency entries of all shapes together.
AdjacencyEntries == SumOf([id \in Ids |-> Len(Children(id))], Ids)

\* The adjacency entries of the shapes expanded so far.
ExpandedEntries == SumOf([id \in visited |-> Len(Children(id))], visited)

\* C22 BFS termination: on every finite graph (cycles, self-loops and
\* repeated edges included) the queue eventually becomes empty; every shape
\* is expanded at most once, so the items ever enqueued are the roots plus
\* the adjacency entries of the expanded shapes, and the number of dequeues
\* never exceeds the number of roots plus the number of adjacency entries.
C22_BfsTerminates ==
  /\ [](pc = "bfs" =>
          /\ dequeues + Len(queue) = Len(Roots) + ExpandedEntries
          /\ dequeues <= Len(Roots) + AdjacencyEntries)
  /\ (pc = "start" ~> (pc = "bfs" /\ queue = <<>>))

\* C22 witness: the queue has run empty on a graph with a self-loop and a
\* repeated edge, after as many dequeues as the bound allows.
C22_Witness ==
  /\ pc = "bfs" /\ queue = <<>>
  /\ \E i \in DOMAIN edges : edges[i].source = edges[i].target
  /\ \E i, j \in DOMAIN edges : i < j /\ edges[i] = edges[j]
  /\ dequeues = Len(Roots) + AdjacencyEntries
  /\ dequeues >= 4

\* The queue as FlowStart leaves it, before the first dequeue.
Seeded == pc = "bfs" /\ dequeues = 0

\* C23 root selection: the BFS seeds are the shapes with an empty incoming
\* list or, when there is none, one shape of smallest main-axis position
\* (y when vertical, x when horizontal); the seeds are in cross-axis order,
\* and the k seeds take the lanes 0..k-1 in that order, all at level 0.
C23_RootSelection ==
  Seeded =>
    LET noIncoming == {id \in Ids : incoming[id] = <<>>}
        seeds == {queue[i].id : i \in DOMAIN queue}
    IN  /\ Cardinality(seeds) = Len(queue)
        /\ IF noIncoming # {}
           THEN seeds = noIncoming
           ELSE \E r \in Ids :
                  /\ seeds = {r}
                  /\ \A o \in Ids : MainHint(r) <= MainHint(o)
        /\ \A i \in DOMAIN queue : queue[i].level = 0 /\ queue[i].lane = i - 1
        /\ \A i, j \in DOMAIN queue :
             i < j => CrossHint(queue[i].id) <= CrossHint(queue[j].id)

\* C23 witness: three seeds, the cross-axis order of which is not the order
\* of the shape Map.
C23_Witness ==
  /\ Seeded
  /\ Len(queue) = 3
  /\ queue[1].id > queue[2].id
  /\ CrossHint(queue[1].id) < CrossHint(queue[3].id)

\* Children first visited from the same parent hold pairwise distinct lanes.
SiblingLanesDistinct ==
  \A v, w \in visited :
    (v # w /\ reachedVia[v] # {} /\ reachedVia[v] = reachedVia[w])
      => swimLanes[v] # swimLanes[w]

\* How often id occurs in the sequence s.
Occurrences(s, id) == Cardinality({i \in DOMAIN s : s[i] = id})

\* C24 child lanes: a first visit of a shape at lane L appends one item per
\* outgoing adjacency entry, in cross-axis order, at the next level, with
\* lane L + index when there are several entries and lane L for a sole one;
\* the visited shape takes its item's lane, so children first reached from
\* the same parent hold pairwise distinct lanes.
C24_ChildLanes ==
  [][ (pc = "bfs" /\ queue # <<>> /\ Head(queue).id \notin visited) =>
        LET item == Head(queue)
            kids == Children(item.id)
            n == Len(kids)
            pushed == [i \in 1..n |-> queue'[Len(queue) - 1 + i]]
        IN  /\ Len(queue') = Len(queue) - 1 + n
            /\ swimLanes'[item.id] = item.lane
            /\ \A i \in 1..n :
                 /\ pushed[i].level = item.level + 1
                 /\ pushed[i].lane = IF n > 1 THEN item.lane + (i - 1) ELSE item.lane
            /\ \A c \in Ids :
                 Occurrences([i \in 1..n |-> pushed[i].id], c) = Occurrences(kids, c)
            /\ \A i, j \in 1..n :
                 i < j => CrossHint(pushed[i].id) <= CrossHint(pushed[j].id)
            /\ SiblingLanesDistinct' ]_vars

\* C24 witness: two children of one parent, both first visited through the
\* items that parent pushed, the one further along the cross axis one lane
\* above the other.
C24_Witness ==
  \E v, w \in visited :
    /\ v # w
    /\ reachedVia[v] # {} /\ reachedVia[v] = reachedVia[w]
    /\ CrossHint(v) < CrossHint(w)
    /\ swimLanes[w] = swimLanes[v] + 1

\* The shapes of level L, the main-axis coordinate of a placed shape and its
\* cross-axis coordinate, in units of 1/K.
AtLevel(L) == {id \in Ids : levels[id] = L}
MainPos(id) == IF direction = "vertical" THEN positions[id].y ELSE positions[id].x
CrossPos(id) == IF direction = "vertical" THEN positions[id].x ELSE positions[id].y

\* Some level holds more than two shapes.
Clearance == \E L \in Range(levels) : Cardinality(AtLevel(L)) > 2

Lengthened(t) == {t \o <<"a">>, t \o <<"nl">>}

\* C26 text-fit monotonicity: for every fixed maxWidth (widths at or below
\* the horizontal padding included) and shape kind, one more character on a
\* line or one more line never gives a smaller width or a smaller height
\* than the text-fit calculator returned, and the height returned is a
\* finite number of at least minHeight.
C26_TextFitMonotone ==
  FitReturned =>
    \A d \in dimensions :
      /\ d.height < Infinity
      /\ d.height >= MIN_HEIGHT * K
      /\ \A g \in Lengthened(sizing.text) :
           LET e == CalculateTextDimensions(g, sizing.maxWidth, sizing.shapeType)
           IN  e.width >= d.width /\ e.height >= d.height

\* The character count of the longest line of the label.
LongestLine ==
  LET lines == SplitLines(NormalizedText(sizing.text))
  IN  Max({Len(lines[i]) : i \in DOMAIN lines})

\* C27 as stated: the width the text-fit calculator returns is
\* max(minWidth, estimated width of the longest line + horizontal padding),
\* a line's estimated width being its character count times the average
\* character width, also when the longest line wraps.
C27_WidthOfLongestLine ==
  FitReturned =>
    \A d \in dimensions :
      d.width = Max({MIN_WIDTH * K, LongestLine * CHAR_WIDTH + HORIZONTAL_PADDING * K})

\* C27 amended: the width the text-fit calculator returns is
\* max(minWidth, min(estimated width of the longest line + horizontal
\* padding, maxWidth)): a longest line that wraps counts as maxWidth less
\* the padding, not as its character count times the character width.
C27_WidthCappedAtMaxWidth ==
  FitReturned =>
    \A d \in dimensions :
      d.width = Max({MIN_WIDTH * K,
                     Min({LongestLine * CHAR_WIDTH + HORIZONTAL_PADDING * K,
                          FitMaxWidth * K})})

\* C27 witness: a line of four characters (30 wide) wrapped at maxWidth 81
\* is given the width 81, not 82.
C27_Witness ==
  /\ FitReturned
  /\ LongestLine = 4 /\ FitMaxWidth = 81
  /\ \A d \in dimensions : d.width = 81 * K

\* C28 seeds keep level 0: when the BFS completes every seed (a shape with
\* no incoming edge, or the single fallback root) is still at level 0, so
\* every other shape the BFS reached is at a level above its root's.
C28_SeedsKeepLevelZero ==
  BfsComplete =>
    \A r \in Range(Roots) :
      /\ levels[r] = 0
      /\ \A v \in visited \ Range(Roots) : levels[v] > levels[r]

AllReturned == \A c \in Calls : calls[c].at = "done"
DocumentCells == Range(file.cells)

\* C29 as stated: for every interleaving of the steps of overlapping
\* add_shape / add_connector / auto_layout invocations on one file, once
\* all of them have completed the document contains every cell an
\* invocation reported as added.
C29_NoLostUpdate == AllReturned => reported \subseteq DocumentCells

\* C29 amended: when no invocation writes the file between another
\* invocation's read and its write, the document contains, once all have
\* completed, every cell an invocation reported as added.
C29_NoLostUpdateWhenSerialized ==
  (AllReturned /\ ~overlapped) => reported \subseteq DocumentCells

\* C29 witness: three invocations have completed one after the other, an
\* auto_layout between two additions, and the document holds both cells.
C29_Witness ==
  /\ AllReturned /\ ~overlapped
  /\ file.arranged
  /\ Len(file.cells) = 2
  /\ \E i \in DOMAIN file.cells : file.cells[i].prefix = "connector"
  /\ reported = DocumentCells

\* No two cells of the document carry the same id.
UniqueIds ==
  \A i, j \in DOMAIN file.cells : i # j => file.cells[i] # file.cells[j]

\* The cell an invocation of the running process has been issued, if any.
Issued(c) == calls[c].cell

\* C30 document ids stay unique: at every step of a run of add_shape and
\* add_connector calls interleaved with restarts of the process, no two
\* cells of the document have the same id; and as long as the process is
\* not restarted a counter never goes down, and an id it issues has a
\* suffix above those it issued before.
C30_IdsStayUnique ==
  [][ /\ UniqueIds'
      /\ restarts' = restarts =>
            /\ shapeNextId' >= shapeNextId
            /\ connectorNextId' >= connectorNextId
            /\ \A c \in Calls :
                 (Issued(c) = NoCell /\ Issued(c)' # NoCell) =>
                   \A d \in Calls \ {c} :
                     Issued(d).prefix = Issued(c)'.prefix => Issued(d).n < Issued(c)'.n
    ]_vars

====
